---- MODULE Spec2Model ----
(***************************************************************************)
(* A model of studio-disponibility: the availability sweep of              *)
(* app/main.py, the upstream client and its TTL cache of                   *)
(* app/quickstudioapi.py, and the durable refresh cycle of app/sql.py.     *)
(*                                                                         *)
(* Time of day is one of the slots of Times, slot 0 being 00:00 (the       *)
(* smallest datetime.time, as in Python).  A date is a day number, and a   *)
(* datetime is day * SlotsPerDay + slot, which orders datetimes the way    *)
(* datetime.datetime does.                                                 *)
(***************************************************************************)
EXTENDS Integers, Sequences, FiniteSets, Bags, TLC

VARIABLES
    req,        \* the arguments of one call of _compute_room_availabilities
    result,     \* the list that call returned
    pc,         \* "call" before the call, "done" after it
    clock,      \* the wall clock, in minutes
    ttl,        \* CACHE_TTL, in minutes (from the environment)
    cache,      \* quickstudioapi.cache: date -> [data, expires], or NoEntry
    http,       \* per date, the number of HTTP requests sent to the provider
    tasks,      \* the calls of _run_quickstudio_bookings_request, in creation order
    batch,      \* the call of get_batch_quickstudio_bookings
    db,         \* the committed content of the database
    sess,       \* per request, the StudioDataCache rows its session has not committed
    rq,         \* per availability request: its position, dates, answer and log
    up,         \* the lifespan: "init", "await", "serving" or "crashed"
    turn,       \* the coroutine now running, "none" while all are suspended
    last,       \* the refresh_bookings call that completed last
    prev,       \* the one that completed before it
    answer,     \* the room_bookings given to one call of convert_quickstudio_response
    converted,  \* what that call returned, or that it raised
    cpc         \* "call" before that call, "done" after it

varsAvail == <<req, result, pc>>
varsCache == <<clock, ttl, cache, http>>
varsFetch == <<tasks, batch>>
varsStore == <<db, sess, rq, up, turn, last, prev>>
varsConv == <<answer, converted, cpc>>
vars == <<req, result, pc, clock, ttl, cache, http, tasks, batch,
          db, sess, rq, up, turn, last, prev, answer, converted, cpc>>

\* ------------------------------------------------------------------ bounds
MaxBookings == 2
MaxTicks == 2
MaxTasks == 2
MaxRaw == 1

\* ------------------------------------------------------- program constants
DefaultCacheTtlMinutes == 60
StaleMinutes == 5

\* ------------------------------------------------------------ value domains
Times == 0..3
SlotsPerDay == Cardinality(Times)
Midnight == 0
RoomSizes == {1, 2}
MinRoomSizes == {1, 2}
MinDurations == {0, 2}
Dates == {1, 2}
Instants == {5 * k : k \in 0..MaxTicks}
CacheTtls == {5, DefaultCacheTtlMinutes}
None == "None"
Requests == {"r1", "r2"}
StudioName == "hf-14"
\* no item of the cache: no data, expired from the start
NoEntry == [data |-> <<>>, expires |-> 0]

Max(a, b) == IF a >= b THEN a ELSE b
Min(a, b) == IF a <= b THEN a ELSE b

\* ------------------------------------------------------- app/main.py sweep

\* Datetime.combine(date, time)
Combine(date, time) == date * SlotsPerDay + time

\* main.py:184  Datetime.combine(date, max(room.open, from_time))
OpenBoundary(room, date, from_time) == Combine(date, Max(room.open, from_time))

\* main.py:185-190  the close boundary; a min_close of 00:00 is next day's 00:00
CloseBoundary(room, date, to_time) ==
    LET min_close == Min(room.close, to_time)
    IN  Combine(IF min_close = Midnight THEN date + 1 ELSE date, min_close)

\* main.py:202,208  Datetime.combine(booking.date, booking.start)
BookingStart(booking) == Combine(booking.date, booking.start)

\* main.py:211  Datetime.combine(date, booking.end): the plain combine
BookingEnd(date, booking) == Combine(date, booking.end)

\* main.py:204-209, 216-221  RoomAvailability(room_name, date, start, end);
\* the room is kept by its id (two rooms may share a stripped name)
RoomAvailability(room, date, start, end) ==
    [room |-> room.id, date |-> date, start |-> start, end |-> end]

\* the list left in the order it came in
KeepOrder(s) == s

\* sorted(xs, key=lambda x: x.start): Python's sort is stable
RECURSIVE InsertByStart(_, _)
InsertByStart(x, s) ==
    IF s = <<>> THEN <<x>>
    ELSE IF s[Len(s)].start <= x.start THEN Append(s, x)
    ELSE Append(InsertByStart(x, SubSeq(s, 1, Len(s) - 1)), s[Len(s)])

RECURSIVE SortedByStart(_)
SortedByStart(s) ==
    IF s = <<>> THEN <<>>
    ELSE InsertByStart(s[Len(s)], SortedByStart(SubSeq(s, 1, Len(s) - 1)))

\* main.py:172-177, 193-197  bookings_per_room[room.id], or [] without an entry
BookingsOfRoom(bookings, room) ==
    SelectSeq(bookings, LAMBDA b : b.room_id = room.id)

\* main.py:201-211  the loop over the sorted bookings of one room; returns
\* the final start_pointer and the windows appended
RECURSIVE SweepBookings(_, _, _, _, _)
SweepBookings(room, date, sorted, start_pointer, out) ==
    IF sorted = <<>> THEN [start_pointer |-> start_pointer, out |-> out]
    ELSE LET booking == Head(sorted)
             out2 == IF BookingStart(booking) > start_pointer
                     THEN Append(out, RoomAvailability(room, date, start_pointer,
                                                       BookingStart(booking)))
                     ELSE out
         IN  SweepBookings(room, date, Tail(sorted),
                           Max(BookingEnd(date, booking), start_pointer), out2)

\* main.py:184-222  the body of the loop over the rooms, for one room
RoomWindows(room, bookings, date, from_time, to_time) ==
    LET swept == SweepBookings(room, date,
                               SortedByStart(BookingsOfRoom(bookings, room)),
                               OpenBoundary(room, date, from_time), <<>>)
        end_pointer == CloseBoundary(room, date, to_time)
    IN  IF end_pointer > swept.start_pointer
        THEN Append(swept.out, RoomAvailability(room, date, swept.start_pointer,
                                                end_pointer))
        ELSE swept.out

\* the room filter with a strict comparison
BiggerThan(room, min_room_size) == room.size > min_room_size

\* main.py:183  only consider big enough rooms
BigEnough(room, min_room_size) == room.size >= min_room_size

\* the filter off by one slot
LongEnoughOffByOne(availability, min_availability_duration) ==
    availability.end - availability.start >= min_availability_duration - 1

\* main.py:227  the duration test of the filter
LongEnough(availability, min_availability_duration) ==
    availability.end - availability.start >= min_availability_duration

\* main.py:183-222  the windows of every big enough room, in studio.rooms order
RECURSIVE AllRoomWindows(_, _, _, _, _, _)
AllRoomWindows(rooms, bookings, date, from_time, to_time, min_room_size) ==
    IF rooms = <<>> THEN <<>>
    ELSE (IF BigEnough(Head(rooms), min_room_size)
          THEN RoomWindows(Head(rooms), bookings, date, from_time, to_time)
          ELSE <<>>)
         \o AllRoomWindows(Tail(rooms), bookings, date, from_time, to_time,
                           min_room_size)

\* the function without its final sort
ComputeUnsorted(rooms, bookings, date, from_time, to_time, min_dur, min_room_size) ==
    SelectSeq(AllRoomWindows(rooms, bookings, date, from_time, to_time,
                             min_room_size),
              LAMBDA a : LongEnough(a, min_dur))

\* main.py:161-231  _compute_room_availabilities
ComputeRoomAvailabilities(rooms, bookings, date, from_time, to_time, min_dur, min_room_size) ==
    SortedByStart(
        SelectSeq(AllRoomWindows(rooms, bookings, date, from_time, to_time,
                                 min_room_size),
                  LAMBDA a : LongEnough(a, min_dur)))

\* ------------------------------------------------------------- the inputs

\* a room of the studio: open before close, or closing at 00:00 (end of day)
RoomSet ==
    {r \in [id : {1}, size : RoomSizes, open : Times, close : Times] :
        r.open < r.close \/ r.close = Midnight}

\* a stored booking of date d (sql.py:109-118): start before end, or ending at
\* 00:00; get_bookings returns only bookings whose date is the requested one
BookingSet(d) ==
    {b \in [room_id : {1}, date : {d}, start : Times, end : Times] :
        b.start < b.end \/ b.end = Midnight}

BookingLists(d) ==
    UNION {[1..n -> BookingSet(d)] : n \in 0..MaxBookings}

\* the parts of the program a specification leaves at rest
AvailAtRest == req = None /\ result = <<>> /\ pc = "off"
FetchAtRest == tasks = <<>> /\ batch = [pc |-> "off"]
ConvAtRest == answer = <<>> /\ converted = None /\ cpc = "off"
CacheAtRest ==
    clock = 0 /\ ttl = DefaultCacheTtlMinutes /\ cache = [d \in Dates |-> NoEntry]
        /\ http = [d \in Dates |-> 0]

NoRefresh == [date |-> 0, data |-> <<>>, table |-> EmptyBag]
IdleRequest == [pc |-> "idle", dates |-> <<>>, i |-> 0, fetched |-> <<>>, log |-> <<>>]
EmptyDb == [rooms |-> {}, bands |-> {}, bookings |-> EmptyBag, fresh |-> {}]
StoreAtRest ==
    /\ db = EmptyDb /\ sess = [r \in Requests |-> {}]
    /\ rq = [r \in Requests |-> IdleRequest]
    /\ up = "off" /\ turn = "none" /\ last = NoRefresh /\ prev = NoRefresh

InitAvail ==
    /\ CacheAtRest /\ FetchAtRest /\ StoreAtRest /\ ConvAtRest
    /\ pc = "call"
    /\ result = <<>>
    /\ \E room \in RoomSet, bookings \in BookingLists(1),
          from_time \in Times, to_time \in Times,
          dur \in MinDurations, size \in MinRoomSizes :
            req = [rooms |-> <<room>>, bookings |-> bookings, date |-> 1,
                   from_time |-> from_time, to_time |-> to_time,
                   min_availability_duration |-> dur, min_room_size |-> size]

CallCompute ==
    /\ pc = "call"
    /\ result' = ComputeRoomAvailabilities(req.rooms, req.bookings, req.date,
                     req.from_time, req.to_time,
                     req.min_availability_duration, req.min_room_size)
    /\ pc' = "done"
    /\ UNCHANGED <<req, varsCache, varsFetch, varsStore, varsConv>>

NextAvail == CallCompute

SpecAvail == InitAvail /\ [][NextAvail]_vars

\* a studio of two rooms (studio.rooms, in that order) and the bookings of
\* both: hours that end the same day or at 00:00, bookings that share a start
RoomHours == {<<0, 0>>, <<1, 3>>, <<2, 0>>}
RoomsWithId(id) ==
    {[id |-> id, size |-> size, open |-> h[1], close |-> h[2]] :
        size \in RoomSizes, h \in RoomHours}
BookedHours == {<<1, 2>>, <<2, 3>>, <<3, 0>>, <<1, 0>>}
TwoRoomBookingSet(d) ==
    {[room_id |-> id, date |-> d, start |-> h[1], end |-> h[2]] :
        id \in {1, 2}, h \in BookedHours}
TwoRoomBookingLists(d) ==
    UNION {[1..n -> TwoRoomBookingSet(d)] : n \in 0..MaxBookings}

InitRooms ==
    /\ CacheAtRest /\ FetchAtRest /\ StoreAtRest /\ ConvAtRest
    /\ pc = "call"
    /\ result = <<>>
    /\ \E room1 \in RoomsWithId(1), room2 \in RoomsWithId(2),
          bookings \in TwoRoomBookingLists(1),
          from_time \in {0, 2}, to_time \in {0, 3},
          dur \in MinDurations, size \in MinRoomSizes :
            req = [rooms |-> <<room1, room2>>, bookings |-> bookings, date |-> 1,
                   from_time |-> from_time, to_time |-> to_time,
                   min_availability_duration |-> dur, min_room_size |-> size]

SpecRooms == InitRooms /\ [][NextAvail]_vars

\* ------------------------------------------- app/quickstudioapi.py: the data

\* the band of a raw booking (quickstudioapi.py:23-25), NoBand when it is null
NoBand == [id |-> 0, name |-> ""]
TheBand == [id |-> 1, name |-> "a"]

\* a raw booking of the provider's answer (quickstudioapi.py:28-32): start and
\* end are datetimes (day, time of day)
RawBooking(type, band, sday, stime, eday, etime) ==
    [type |-> type, band |-> band, sday |-> sday, stime |-> stime,
     eday |-> eday, etime |-> etime]

\* what the provider may list for date d: a band's booking on d, a type-4
\* placeholder for closed hours, a band's booking that starts on the day
\* after d, and a booking of a type the program does not know
RawBookingSet(d) ==
    {RawBooking(1, TheBand, d, 1, d, 2), RawBooking(4, NoBand, d, 0, d, 1),
     RawBooking(1, TheBand, d + 1, 1, d + 1, 2), RawBooking(2, NoBand, d, 1, d, 2)}

\* the provider's answer (quickstudioapi.py:35-42): a list of room records,
\* here the record of room 1 with its bookings
Answer(bs) ==
    <<[id |-> 1, name |-> "A", size |-> 2, open |-> 1, close |-> 0, bookings |-> bs]>>

RawResponses(d) ==
    {Answer(bs) : bs \in UNION {[1..n -> RawBookingSet(d)] : n \in 0..MaxRaw}}

\* the answers seen by the callers of the client alone: the data is opaque there
FetchAnswers(d) == {Answer(<<>>), Answer(<<RawBooking(1, TheBand, d, 1, d, 2)>>)}

\* ------------------------------------------ app/quickstudioapi.py: the cache

\* TTLCache.__contains__: present and not yet expired
CacheHas(d) == clock < cache[d].expires

\* TTLCache.__getitem__
CacheGet(d) == cache[d].data

\* TTLCache.__setitem__: expired items are removed, then the item is stored
\* with expires = now + ttl (maxsize = 1000 is never reached by the dates here)
CachePut(d, data) ==
    [e \in Dates |->
        IF e = d THEN [data |-> data, expires |-> clock + ttl]
        ELSE IF clock < cache[e].expires THEN cache[e]
        ELSE NoEntry]

\* the request without the test of the cache
RunRequestUncached(d) == [date |-> d, pc |-> "await", ret |-> <<>>]

\* quickstudioapi.py:45-57  _run_quickstudio_bookings_request up to its first
\* suspension: a cache hit returns at once, a miss sends the HTTP request
RunRequest(d) ==
    IF CacheHas(d) THEN [date |-> d, pc |-> "done", ret |-> CacheGet(d)]
    ELSE [date |-> d, pc |-> "await", ret |-> <<>>]

HttpSent(ds) ==
    [d \in Dates |->
        http[d] + Cardinality({i \in 1..Len(ds) : ds[i] = d /\ ~CacheHas(d)})]

\* the wall clock advances
Tick ==
    /\ clock + 5 \in Instants
    /\ clock' = clock + 5
    /\ UNCHANGED <<ttl, cache, http>>

\* quickstudioapi.py:66-70  get_quickstudio_bookings(date), called by someone
GetQuickstudioBookings(d) ==
    /\ Len(tasks) < MaxTasks
    /\ tasks' = Append(tasks, RunRequest(d))
    /\ http' = HttpSent(<<d>>)
    /\ UNCHANGED <<clock, ttl, cache, batch>>

\* quickstudioapi.py:58-63  the provider answers 2xx: the answer is validated,
\* stored in the cache and returned
RequestSucceeds(i, data) ==
    /\ tasks[i].pc = "await"
    /\ cache' = CachePut(tasks[i].date, data)
    /\ tasks' = [tasks EXCEPT ![i] = [@ EXCEPT !.pc = "done", !.ret = data]]
    /\ UNCHANGED <<clock, ttl, http, batch>>

\* a failed request that caches an empty list for its date
RequestFailsCaching(i) ==
    /\ tasks[i].pc = "await"
    /\ cache' = CachePut(tasks[i].date, <<>>)
    /\ tasks' = [tasks EXCEPT ![i] = [@ EXCEPT !.pc = "failed"]]
    /\ UNCHANGED <<clock, ttl, http, batch>>

\* quickstudioapi.py:53-58  the request times out or raise_for_status raises
RequestFails(i) ==
    /\ tasks[i].pc = "await"
    /\ tasks' = [tasks EXCEPT ![i] = [@ EXCEPT !.pc = "failed"]]
    /\ UNCHANGED <<clock, ttl, cache, http, batch>>

\* quickstudioapi.py:78-81  tasks = {date: create_task(...) for date in dates}:
\* a task is created for every element of dates and the dict keeps, per date,
\* the task created last.  The tasks all run to their first suspension before
\* any answer is handled.
DictTasks(ds, base) ==
    [d \in {ds[k] : k \in 1..Len(ds)} |->
        base + CHOOSE k \in 1..Len(ds) :
                   ds[k] = d /\ \A m \in (k + 1)..Len(ds) : ds[m] # d]

GetBatchQuickstudioBookings(ds) ==
    /\ batch.pc = "off"
    /\ Len(tasks) + Len(ds) <= MaxTasks
    /\ tasks' = tasks \o [k \in 1..Len(ds) |-> RunRequest(ds[k])]
    /\ http' = HttpSent(ds)
    /\ batch' = [pc |-> "gather", dates |-> ds, created |-> Len(tasks) + 1..Len(tasks) + Len(ds),
                 tasks |-> DictTasks(ds, Len(tasks)), results |-> <<>>]
    /\ UNCHANGED <<clock, ttl, cache>>

\* quickstudioapi.py:83-85  gather returns once every task of the dict is done
BatchReturns ==
    /\ batch.pc = "gather"
    /\ \A d \in DOMAIN batch.tasks : tasks[batch.tasks[d]].pc = "done"
    /\ batch' = [batch EXCEPT !.pc = "returned",
                     !.results = [d \in DOMAIN batch.tasks |-> tasks[batch.tasks[d]].ret]]
    /\ UNCHANGED <<varsCache, tasks>>

\* quickstudioapi.py:83  gather (return_exceptions=False) raises the first
\* exception of a task; the sibling tasks are left running
BatchRaises ==
    /\ batch.pc = "gather"
    /\ \E d \in DOMAIN batch.tasks : tasks[batch.tasks[d]].pc = "failed"
    /\ batch' = [batch EXCEPT !.pc = "raised"]
    /\ UNCHANGED <<varsCache, tasks>>

DateLists == UNION {[1..n -> Dates] : n \in 1..MaxTasks}

InitFetch ==
    /\ AvailAtRest /\ FetchAtRest /\ StoreAtRest /\ ConvAtRest
    /\ clock = 0 /\ ttl \in CacheTtls
    /\ cache = [d \in Dates |-> NoEntry]
    /\ http = [d \in Dates |-> 0]

NextFetch ==
    \/ (Tick /\ UNCHANGED <<varsAvail, varsFetch, varsStore, varsConv>>)
    \/ (\E d \in Dates : GetQuickstudioBookings(d)) /\ UNCHANGED <<varsAvail, varsStore, varsConv>>
    \/ (\E ds \in DateLists : GetBatchQuickstudioBookings(ds))
           /\ UNCHANGED <<varsAvail, varsStore, varsConv>>
    \/ (\E i \in 1..Len(tasks) : \E data \in FetchAnswers(tasks[i].date) :
            RequestSucceeds(i, data)) /\ UNCHANGED <<varsAvail, varsStore, varsConv>>
    \/ (\E i \in 1..Len(tasks) : RequestFails(i)) /\ UNCHANGED <<varsAvail, varsStore, varsConv>>
    \/ (BatchReturns /\ UNCHANGED <<varsAvail, varsStore, varsConv>>)
    \/ (BatchRaises /\ UNCHANGED <<varsAvail, varsStore, varsConv>>)

SpecFetch == InitFetch /\ [][NextFetch]_vars

\* ---------------------------------------------- app/sql.py: normalization

\* the day-span test without its exception for an end at 00:00
BookingRaisesNoMidnight(booking) ==
    CASE booking.type = 1 ->
            \/ booking.band = NoBand
            \/ booking.sday # booking.eday
      [] booking.type = 4 -> FALSE
      [] OTHER -> TRUE

\* sql.py:88-124  whether a raw booking makes convert_quickstudio_response raise
BookingRaises(booking) ==
    CASE booking.type = 1 ->
            \/ booking.band = NoBand
            \/ /\ booking.sday # booking.eday
               /\ ~(booking.etime = Midnight /\ booking.eday = booking.sday + 1)
      [] booking.type = 4 -> FALSE
      [] OTHER -> TRUE

\* sql.py:109-118  Booking(type, date, start, end, band_id, room_id)
ConvertedBooking(rb, booking) ==
    [type |-> booking.type, date |-> booking.sday, start |-> booking.stime,
     end |-> booking.etime, band_id |-> booking.band.id, room_id |-> rb.id]

\* sql.py:77-85  Room(...)
ConvertedRoom(studio_name, rb) ==
    [id |-> rb.id, name |-> rb.name, size |-> rb.size, open |-> rb.open,
     close |-> rb.close, studio_name |-> studio_name]

\* sql.py:87-124  the loop over rb.bookings
RECURSIVE ConvertBookings(_, _)
ConvertBookings(rb, bs) ==
    IF bs = <<>> THEN [raised |-> FALSE, bands |-> {}, bookings |-> <<>>]
    ELSE IF BookingRaises(Head(bs))
         THEN [raised |-> TRUE, bands |-> {}, bookings |-> <<>>]
    ELSE LET rest == ConvertBookings(rb, Tail(bs))
         IN  IF rest.raised \/ Head(bs).type = 4 THEN rest
             ELSE [raised |-> FALSE,
                   bands |-> {Head(bs).band} \cup rest.bands,
                   bookings |-> <<ConvertedBooking(rb, Head(bs))>> \o rest.bookings]

\* sql.py:91,105,122  what a call that raised leaves to its caller: nothing
Raised == [raised |-> TRUE, rooms |-> {}, bands |-> {}, bookings |-> <<>>]

\* sql.py:70-126  convert_quickstudio_response: raises, or returns the rooms,
\* the bands and the bookings.  rooms and bands are Python sets of objects
\* hashed by id (sql.py:31-32, 44-45) and compared field by field, as pydantic
\* models are: two objects are one element only when all their fields agree.
RECURSIVE ConvertQuickstudioResponse(_, _)
ConvertQuickstudioResponse(studio_name, room_bookings) ==
    IF room_bookings = <<>>
    THEN [raised |-> FALSE, rooms |-> {}, bands |-> {}, bookings |-> <<>>]
    ELSE LET rb == Head(room_bookings)
             own == ConvertBookings(rb, rb.bookings)
             rest == ConvertQuickstudioResponse(studio_name, Tail(room_bookings))
         IN  IF own.raised \/ rest.raised
             THEN Raised
             ELSE [raised |-> FALSE,
                   rooms |-> {ConvertedRoom(studio_name, rb)} \cup rest.rooms,
                   bands |-> own.bands \cup rest.bands,
                   bookings |-> own.bookings \o rest.bookings]

\* the provider's answers given to the converter alone: room records that may
\* share an id under different names, bookings of every type, with or without
\* a band, bands that share an id under different names, and bookings ending
\* the same day, at the next 00:00, later the next day, or a day later still
OtherBand == [id |-> 1, name |-> "b"]
RawSpans == {<<1, 2>>, <<2, 0>>, <<2, 1>>, <<3, 0>>}
ConvRawBookings ==
    {RawBooking(1, b, 1, 1, e[1], e[2]) : b \in {NoBand, TheBand, OtherBand}, e \in RawSpans}
        \cup {RawBooking(2, NoBand, 1, 1, 1, 2)}
        \cup {RawBooking(4, NoBand, 1, 1, e[1], e[2]) : e \in {<<1, 2>>, <<2, 1>>}}
RecordHeads == {<<1, "A">>, <<1, "B">>, <<2, "A">>}
RecordCounts == {0, 1, 2}
ConvRecords ==
    {[id |-> h[1], name |-> h[2], size |-> 2, open |-> 1, close |-> 0, bookings |-> bs] :
        h \in RecordHeads, bs \in UNION {[1..n -> ConvRawBookings] : n \in 0..MaxRaw}}
ConvAnswers == UNION {[1..n -> ConvRecords] : n \in RecordCounts}

InitConvert ==
    /\ AvailAtRest /\ CacheAtRest /\ FetchAtRest /\ StoreAtRest
    /\ answer \in ConvAnswers
    /\ converted = None
    /\ cpc = "call"

\* sql.py:131  rooms, bands, bookings = convert_quickstudio_response(studio, room_bookings)
CallConvert ==
    /\ cpc = "call"
    /\ converted' = ConvertQuickstudioResponse(StudioName, answer)
    /\ cpc' = "done"
    /\ UNCHANGED <<answer, varsAvail, varsCache, varsFetch, varsStore>>

NextConvert == CallConvert

SpecConvert == InitConvert /\ [][NextConvert]_vars

\* ------------------------------------------------- app/sql.py: the database

RECURSIVE BagOfSeq(_)
BagOfSeq(rows) ==
    IF rows = <<>> THEN EmptyBag ELSE SetToBag({Head(rows)}) (+) BagOfSeq(Tail(rows))

\* session.merge of rows keyed by id: insert, or overwrite the row of that id
MergeById(table, rows) ==
    {x \in table : \A y \in rows : y.id # x.id} \cup rows

\* session.merge of StudioDataCache rows, keyed by (studio_name, date)
MergeFresh(table, rows) ==
    {x \in table : \A y \in rows : ~(y.studio_name = x.studio_name /\ y.date = x.date)}
        \cup rows

\* sql.py:150-161  get_bookings: the bookings of the date whose room belongs
\* to the studio, here as the bag of the rows selected
GetBookings(rooms, bookings, studio_name, date) ==
    LET hit == {x \in DOMAIN bookings :
                    /\ x.date = date
                    /\ \E room \in rooms :
                           room.id = x.room_id /\ room.studio_name = studio_name}
    IN  [x \in hit |-> bookings[x]]

\* sql.py:133-146  refresh_bookings after the conversion: merge the rooms and
\* the bands, delete the stored bookings of the date, add the new ones, commit
\* (the commit also writes what the session held uncommitted)
RefreshedDb(date, conv, pending) ==
    LET rooms == MergeById(db.rooms, conv.rooms)
        stale == GetBookings(rooms, db.bookings, StudioName, date)
        kept == [x \in DOMAIN db.bookings \ DOMAIN stale |-> db.bookings[x]]
    IN  [rooms |-> rooms,
         bands |-> MergeById(db.bands, conv.bands),
         bookings |-> kept (+) BagOfSeq(conv.bookings),
         fresh |-> MergeFresh(db.fresh, pending)]

\* ------------------------------------------------ app/main.py: the lifespan

\* main.py:45  the lifespan refreshes the current date
Today == CHOOSE d \in Dates : \A e \in Dates : d <= e

\* main.py:47-52, sql.py:130  the lifespan calls refresh_bookings, which sends
\* the HTTP request (the cache of a starting process is empty)
StartupRefresh ==
    /\ up = "init" /\ turn = "none"
    /\ up' = "await"
    /\ http' = HttpSent(<<Today>>)
    /\ UNCHANGED <<clock, ttl, cache, db, sess, rq, turn, last, prev>>

\* the provider answers: the answer is cached, converted and stored; a
\* conversion that raises ends the startup
StartupAnswered(data) ==
    /\ up = "await" /\ turn = "none"
    /\ cache' = CachePut(Today, data)
    /\ LET conv == ConvertQuickstudioResponse(StudioName, data)
       IN  IF conv.raised
           THEN up' = "crashed" /\ UNCHANGED <<db, last, prev>>
           ELSE /\ up' = "serving"
                /\ db' = RefreshedDb(Today, conv, {})
                /\ last' = [date |-> Today, data |-> data, table |-> db'.bookings]
                /\ prev' = last
    /\ UNCHANGED <<clock, ttl, http, sess, rq, turn>>

\* the request fails: the startup ends
StartupFails ==
    /\ up = "await" /\ turn = "none"
    /\ up' = "crashed"
    /\ UNCHANGED <<varsCache, db, sess, rq, turn, last, prev>>

\* ------------------------------------- app/main.py: the availability request

\* session.get(StudioDataCache, key): the row the session holds, else the
\* committed one; a set with at most one row
SessionGet(r, date) ==
    LET mine == {x \in sess[r] : x.studio_name = StudioName /\ x.date = date}
    IN  IF mine # {} THEN mine
        ELSE {x \in db.fresh : x.studio_name = StudioName /\ x.date = date}

\* a refresh decision one slot early: stale at exactly five minutes
NeedsRefreshAtFive(last_data_pull, now) ==
    \/ last_data_pull = {}
    \/ \E x \in last_data_pull : x.last_refresh <= now - StaleMinutes

\* main.py:109-112  not last_data_pull or last_refresh < now - 5 minutes
NeedsRefresh(last_data_pull, now) ==
    \/ last_data_pull = {}
    \/ \E x \in last_data_pull : x.last_refresh < now - StaleMinutes

\* the requested dates that pass the weekday filter (main.py:99-104)
RequestDates ==
    {<<d>> : d \in Dates}
        \cup {ds \in {<<d, e>> : d \in Dates, e \in Dates} : ds[1] < ds[2]}

CurrentDate(r) == rq[r].dates[rq[r].i]

LogEntry(r) == rq[r].log[Len(rq[r].log)]
Logged(r, field, value) ==
    [rq[r].log EXCEPT ![Len(rq[r].log)] = [@ EXCEPT ![field] = value]]

\* main.py:91-98  the handler starts: the session is opened, the studio found
BeginRequest(r, dates) ==
    /\ up = "serving" /\ turn = "none" /\ rq[r].pc = "idle"
    /\ rq' = [rq EXCEPT ![r] = [@ EXCEPT !.pc = "check", !.dates = dates, !.i = 1]]
    /\ turn' = r
    /\ UNCHANGED <<varsCache, db, sess, up, last, prev>>

\* main.py:106-113  the freshness record is looked up and the refresh decided
CheckFreshness(r) ==
    /\ turn = r /\ rq[r].pc = "check"
    /\ LET stale == NeedsRefresh(SessionGet(r, CurrentDate(r)), clock)
           entry == [date |-> CurrentDate(r), now |-> clock,
                     seen |-> {x \in db.fresh : x.date = CurrentDate(r)},
                     called |-> stale, http |-> FALSE, refreshed |-> FALSE,
                     read |-> FALSE]
       IN  rq' = [rq EXCEPT ![r] = [@ EXCEPT
                      !.pc = IF stale THEN "fetch" ELSE "read",
                      !.log = Append(@, entry)]]
    /\ UNCHANGED <<varsCache, db, sess, up, turn, last, prev>>

\* sql.py:130  refresh_bookings awaits get_quickstudio_bookings: a cache hit
\* returns at once, a miss sends the HTTP request and suspends the handler
CallUpstream(r) ==
    /\ turn = r /\ rq[r].pc = "fetch"
    /\ IF CacheHas(CurrentDate(r))
       THEN /\ rq' = [rq EXCEPT ![r] = [@ EXCEPT
                          !.pc = "apply", !.fetched = CacheGet(CurrentDate(r))]]
            /\ UNCHANGED <<http, turn>>
       ELSE /\ rq' = [rq EXCEPT ![r] = [@ EXCEPT
                          !.pc = "await", !.log = Logged(r, "http", TRUE)]]
            /\ http' = HttpSent(<<CurrentDate(r)>>)
            /\ turn' = "none"
    /\ UNCHANGED <<clock, ttl, cache, db, sess, up, last, prev>>

\* quickstudioapi.py:58-63  the provider answers 2xx: the answer is cached and
\* the handler resumes
UpstreamAnswers(r, data) ==
    /\ turn = "none" /\ rq[r].pc = "await"
    /\ cache' = CachePut(CurrentDate(r), data)
    /\ rq' = [rq EXCEPT ![r] = [@ EXCEPT !.pc = "apply", !.fetched = data]]
    /\ turn' = r
    /\ UNCHANGED <<clock, ttl, http, db, sess, up, last, prev>>

\* the exception leaves the handler: the session is closed, what it had not
\* committed is lost (main.py:91)
Aborted(r) ==
    /\ rq' = [rq EXCEPT ![r] = [@ EXCEPT !.pc = "error"]]
    /\ sess' = [sess EXCEPT ![r] = {}]
    /\ turn' = "none"

\* quickstudioapi.py:53-58  the request fails or raise_for_status raises
UpstreamFails(r) ==
    /\ turn = "none" /\ rq[r].pc = "await"
    /\ Aborted(r)
    /\ UNCHANGED <<varsCache, db, up, last, prev>>

\* sql.py:131-146  refresh_bookings converts the answer and replaces the
\* bookings of the date; a conversion that raises leaves the handler
ApplyRefresh(r) ==
    /\ turn = r /\ rq[r].pc = "apply"
    /\ LET conv == ConvertQuickstudioResponse(StudioName, rq[r].fetched)
       IN  IF conv.raised
           THEN Aborted(r) /\ UNCHANGED <<db, last, prev>>
           ELSE /\ db' = RefreshedDb(CurrentDate(r), conv, sess[r])
                /\ sess' = [sess EXCEPT ![r] = {}]
                /\ rq' = [rq EXCEPT ![r] = [@ EXCEPT
                              !.pc = "mark", !.log = Logged(r, "refreshed", TRUE)]]
                /\ last' = [date |-> CurrentDate(r), data |-> rq[r].fetched,
                            table |-> db'.bookings]
                /\ prev' = last
                /\ UNCHANGED turn
    /\ UNCHANGED <<varsCache, up>>

\* main.py:114-118  session.merge(StudioDataCache(..., last_refresh=now)): the
\* row is held by the session, uncommitted
MarkFresh(r) ==
    /\ turn = r /\ rq[r].pc = "mark"
    /\ sess' = [sess EXCEPT ![r] =
                   MergeFresh(@, {[studio_name |-> StudioName,
                                   date |-> CurrentDate(r), last_refresh |-> clock]})]
    /\ rq' = [rq EXCEPT ![r] = [@ EXCEPT !.pc = "read"]]
    /\ UNCHANGED <<varsCache, db, up, turn, last, prev>>

\* main.py:120-130, 147  the stored bookings are read and the windows of the
\* date computed from them; after the last date the handler returns and its
\* session is closed without a commit
ReadBookings(r) ==
    /\ turn = r /\ rq[r].pc = "read"
    /\ IF rq[r].i < Len(rq[r].dates)
       THEN /\ rq' = [rq EXCEPT ![r] = [@ EXCEPT
                          !.pc = "check", !.i = @ + 1, !.log = Logged(r, "read", TRUE)]]
            /\ UNCHANGED <<sess, turn>>
       ELSE /\ rq' = [rq EXCEPT ![r] = [@ EXCEPT
                          !.pc = "done", !.log = Logged(r, "read", TRUE)]]
            /\ sess' = [sess EXCEPT ![r] = {}]
            /\ turn' = "none"
    /\ UNCHANGED <<varsCache, db, up, last, prev>>

\* time passes while every coroutine is suspended
TimePasses == turn = "none" /\ Tick

InitStore ==
    /\ AvailAtRest /\ FetchAtRest /\ ConvAtRest
    /\ clock = 0 /\ ttl \in CacheTtls
    /\ cache = [d \in Dates |-> NoEntry]
    /\ http = [d \in Dates |-> 0]
    /\ db = EmptyDb /\ sess = [r \in Requests |-> {}]
    /\ rq = [r \in Requests |-> IdleRequest]
    /\ up = "init" /\ turn = "none" /\ last = NoRefresh /\ prev = NoRefresh

NextStore ==
    \/ (TimePasses /\ UNCHANGED <<varsAvail, varsFetch, varsStore, varsConv>>)
    \/ (StartupRefresh /\ UNCHANGED <<varsAvail, varsFetch, varsConv>>)
    \/ (\E data \in RawResponses(Today) : StartupAnswered(data))
           /\ UNCHANGED <<varsAvail, varsFetch, varsConv>>
    \/ (StartupFails /\ UNCHANGED <<varsAvail, varsFetch, varsConv>>)
    \/ (\E r \in Requests, dates \in RequestDates : BeginRequest(r, dates))
           /\ UNCHANGED <<varsAvail, varsFetch, varsConv>>
    \/ (\E r \in Requests : CheckFreshness(r)) /\ UNCHANGED <<varsAvail, varsFetch, varsConv>>
    \/ (\E r \in Requests : CallUpstream(r)) /\ UNCHANGED <<varsAvail, varsFetch, varsConv>>
    \/ (\E r \in {x \in Requests : rq[x].pc = "await"} :
            \E data \in RawResponses(CurrentDate(r)) : UpstreamAnswers(r, data))
           /\ UNCHANGED <<varsAvail, varsFetch, varsConv>>
    \/ (\E r \in Requests : UpstreamFails(r)) /\ UNCHANGED <<varsAvail, varsFetch, varsConv>>
    \/ (\E r \in Requests : ApplyRefresh(r)) /\ UNCHANGED <<varsAvail, varsFetch, varsConv>>
    \/ (\E r \in Requests : MarkFresh(r)) /\ UNCHANGED <<varsAvail, varsFetch, varsConv>>
    \/ (\E r \in Requests : ReadBookings(r)) /\ UNCHANGED <<varsAvail, varsFetch, varsConv>>

Spec == InitStore /\ [][NextStore]_vars

\* ------------------------------------------------- claims on the client

BatchTasks == {batch.tasks[d] : d \in DOMAIN batch.tasks}

\* C6: single-flight: concurrent requests that miss the cache for the same
\* date share one upstream fetch, so no two HTTP requests for one date are
\* ever in flight together.
C6_SingleFlight ==
    \A i, j \in 1..Len(tasks) :
        (i < j /\ tasks[i].pc = "await" /\ tasks[j].pc = "await")
            => tasks[i].date # tasks[j].date

\* C7: when the fetch of one date of a batch fails, the batch is not aborted:
\* once its fetches have ended, every date whose fetch succeeded is returned
\* with its result.
C7_BatchIsolatesFailure ==
    (/\ batch.pc \in {"returned", "raised"}
     /\ \A i \in BatchTasks : tasks[i].pc \in {"done", "failed"})
        => \A d \in DOMAIN batch.tasks :
               tasks[batch.tasks[d]].pc = "done"
                   => /\ batch.pc = "returned"
                      /\ batch.results[d] = tasks[batch.tasks[d]].ret

\* C14: a fetch of a date whose cache entry has not expired sends no HTTP
\* request and returns the cached answer at once.
C14_CacheHitShortCircuits ==
    [][\A k \in (Len(tasks) + 1)..Len(tasks') :
           CacheHas(tasks'[k].date) =>
               /\ http'[tasks'[k].date] = http[tasks'[k].date]
               /\ tasks'[k].pc = "done"
               /\ tasks'[k].ret = CacheGet(tasks'[k].date)]_vars
\* two fetches of one date have returned and one HTTP request was sent
C14_Witness ==
    \E i, j \in 1..Len(tasks) :
        /\ i < j /\ tasks[i].date = tasks[j].date
        /\ tasks[i].pc = "done" /\ tasks[j].pc = "done"
        /\ tasks[j].ret = tasks[i].ret /\ tasks[j].ret # <<>>
        /\ http[tasks[i].date] = 1

RECURSIVE UpstreamBookings(_)
UpstreamBookings(room_bookings) ==
    IF room_bookings = <<>> THEN <<>>
    ELSE LET rb == Head(room_bookings)
             real == SelectSeq(rb.bookings, LAMBDA b : b.type # 4)
         IN  [k \in 1..Len(real) |->
                 [type |-> real[k].type, date |-> real[k].sday,
                  start |-> real[k].stime, end |-> real[k].etime,
                  band_id |-> real[k].band.id, room_id |-> rb.id]]
             \o UpstreamBookings(Tail(room_bookings))

\* the stored bookings of a date
StoredFor(table, date) ==
    [x \in {y \in DOMAIN table : y.date = date} |-> table[x]]

\* C8: after refresh_bookings(session, studio, date) completes, the bookings
\* stored for the date are exactly those the provider returned, type-4 entries
\* removed; and a refresh of the same date with the same data as the refresh
\* before it leaves the stored bookings as that refresh left them.
C8_RefreshReplacesBookings ==
    last.date # 0 =>
        /\ StoredFor(last.table, last.date) = BagOfSeq(UpstreamBookings(last.data))
        /\ (prev.date = last.date /\ prev.data = last.data)
               => last.table = prev.table

\* C9: when an availability request has returned, every date it refreshed has
\* a committed freshness record, not older than that refresh.
C9_FreshnessRecordStored ==
    \A r \in Requests :
        rq[r].pc = "done" =>
            \A k \in 1..Len(rq[r].log) :
                rq[r].log[k].refreshed =>
                    \E x \in db.fresh :
                        /\ x.date = rq[r].log[k].date
                        /\ x.last_refresh >= rq[r].log[k].now

\* the durable record of the date is missing or older than five minutes
RecordStale(entry) ==
    \/ entry.seen = {}
    \/ \E x \in entry.seen : entry.now - x.last_refresh > 5

\* C10: refresh_bookings is called for a requested date exactly when its
\* freshness record is missing or older than five minutes; with a record that
\* is not, no HTTP request is sent and no refresh happens before the stored
\* bookings are read.
C10_StalenessDecision ==
    \A r \in Requests :
        \A k \in 1..Len(rq[r].log) :
            LET entry == rq[r].log[k]
            IN  /\ entry.called <=> RecordStale(entry)
                /\ entry.read => (entry.refreshed <=> RecordStale(entry))
                /\ ~RecordStale(entry) => (~entry.http /\ ~entry.refreshed)
\* a date served from the store with a record exactly five minutes old
C10_Witness ==
    \E r \in Requests :
        \E k \in 1..Len(rq[r].log) :
            /\ rq[r].log[k].read /\ ~rq[r].log[k].called
            /\ \E x \in rq[r].log[k].seen : rq[r].log[k].now - x.last_refresh = 5

\* the dates whose bookings request r has replaced and committed so far
RefreshedBy(r) ==
    {rq[r].log[k] : k \in {j \in 1..Len(rq[r].log) : rq[r].log[j].refreshed}}

\* C11: the replaced bookings of a date and its freshness record become
\* visible together: whenever a handler is suspended, so that other sessions
\* read the database, every date whose bookings it has replaced has a
\* committed freshness record not older than that refresh.
C11_RefreshAtomic ==
    \A r \in Requests :
        rq[r].pc = "await" =>
            \A entry \in RefreshedBy(r) :
                \E x \in db.fresh :
                    x.date = entry.date /\ x.last_refresh >= entry.now

\* C12: when the conversion of the provider's answer raises inside
\* refresh_bookings, the handler ends with the error and the cache does not
\* hold the rejected answer for that date.
C12_RejectedAnswerNotCached ==
    \A r \in Requests :
        (/\ rq[r].pc = "error"
         /\ ConvertQuickstudioResponse(StudioName, rq[r].fetched).raised)
            => ~(/\ CacheHas(CurrentDate(r))
                 /\ CacheGet(CurrentDate(r)) = rq[r].fetched)

\* the requests that asked for date d alone, refreshed it and returned
RefreshedOnly(d) ==
    {r \in Requests :
        /\ rq[r].pc = "done" /\ rq[r].dates = <<d>>
        /\ rq[r].log[1].refreshed}

\* C16: once two requests have both refreshed the same date and returned, the
\* bookings stored for the date are the converted bookings of one of the two
\* answers, and the freshness record of the date is not older than the later
\* of the two refreshes.
C16_LastWriterWins ==
    \A d \in Dates :
        \A r1, r2 \in RefreshedOnly(d) :
            r1 # r2 =>
                /\ \E r \in {r1, r2} :
                       StoredFor(db.bookings, d) =
                           BagOfSeq(ConvertQuickstudioResponse(StudioName,
                                                               rq[r].fetched).bookings)
                /\ \E x \in db.fresh :
                       /\ x.date = d
                       /\ x.last_refresh >= Max(rq[r1].log[1].now, rq[r2].log[1].now)

\* ------------------------------------------------ claims on the converter

RawBookingsOf(room_bookings) ==
    UNION {{room_bookings[i].bookings[k] : k \in 1..Len(room_bookings[i].bookings)} :
               i \in 1..Len(room_bookings)}

\* a raw booking the converter accepts, as the specification states it
Accepted(b) ==
    \/ b.type = 4
    \/ /\ b.type = 1
       /\ b.band # NoBand
       /\ \/ b.sday = b.eday
          \/ (b.eday = b.sday + 1 /\ b.etime = 0)

\* one Booking per type-1 raw booking, in the order of the answer
RECURSIVE ExpectedBookings(_)
ExpectedBookings(room_bookings) ==
    IF room_bookings = <<>> THEN <<>>
    ELSE LET rb == Head(room_bookings)
             real == SelectSeq(rb.bookings, LAMBDA b : b.type = 1)
         IN  [k \in 1..Len(real) |->
                 [type |-> 1, date |-> real[k].sday, start |-> real[k].stime,
                  end |-> real[k].etime, band_id |-> real[k].band.id,
                  room_id |-> rb.id]]
             \o ExpectedBookings(Tail(room_bookings))

\* C13: convert_quickstudio_response succeeds exactly when every raw booking
\* has type 4, or has type 1 with a band and ends on the day it starts or at
\* 00:00 of the next day; it then returns one Booking per type-1 raw booking
\* and none for type 4; otherwise it raises and returns nothing.
C13_ConvertSucceedsIff ==
    cpc = "done" =>
        /\ ~converted.raised <=> \A b \in RawBookingsOf(answer) : Accepted(b)
        /\ ~converted.raised => converted.bookings = ExpectedBookings(answer)
        /\ converted.raised => converted = Raised
\* a successful call on a type-4 entry and a booking that ends at the next 00:00
C13_Witness ==
    /\ cpc = "done"
    /\ ~converted.raised
    /\ \E b \in RawBookingsOf(answer) : b.type = 4
    /\ \E b \in RawBookingsOf(answer) : b.type = 1 /\ b.eday = b.sday + 1
    /\ Len(converted.bookings) = 1

\* C17: the rooms and the bands returned by convert_quickstudio_response hold
\* at most one Room per room id and at most one Band per band id.
C17_DedupById ==
    (cpc = "done" /\ ~converted.raised) =>
        /\ \A x, y \in converted.rooms : x.id = y.id => x = y
        /\ \A x, y \in converted.bands : x.id = y.id => x = y

\* ------------------------------------------- claims on the availability sweep

TheRoom(id) == CHOOSE r \in {req.rooms[i] : i \in 1..Len(req.rooms)} : r.id = id
ConsideredRooms ==
    {r \in {req.rooms[i] : i \in 1..Len(req.rooms)} : r.size >= req.min_room_size}
Returned == {result[i] : i \in 1..Len(result)}
RoomBookings(room) ==
    {b \in {req.bookings[i] : i \in 1..Len(req.bookings)} : b.room_id = room.id}

\* the boundaries as the specification states them
EffectiveOpen(room) ==
    req.date * SlotsPerDay + Max(room.open, req.from_time)
EffectiveClose(room) ==
    LET t == Min(room.close, req.to_time)
    IN  IF t = 0 THEN (req.date + 1) * SlotsPerDay ELSE req.date * SlotsPerDay + t

\* a booking's interval under the midnight rule: an end of 00:00 is the next day's
BookedFrom(b) == b.date * SlotsPerDay + b.start
BookedUntil(b) ==
    IF b.end = 0 THEN (b.date + 1) * SlotsPerDay ELSE b.date * SlotsPerDay + b.end
Covered(room, t) ==
    \E b \in RoomBookings(room) : BookedFrom(b) <= t /\ t < BookedUntil(b)

\* C1: every returned window of a room lies inside [effective_open,
\* effective_close) of that room, whatever bookings the room has.
C1_WindowsInsideBounds ==
    pc = "done" =>
        \A w \in Returned :
            /\ w.start >= EffectiveOpen(TheRoom(w.room))
            /\ w.end <= EffectiveClose(TheRoom(w.room))

\* C2: the returned windows of one room are pairwise non-overlapping, and no
\* window is returned twice.
C2_WindowsDisjoint ==
    pc = "done" =>
        \A i, j \in 1..Len(result) :
            (i < j /\ result[i].room = result[j].room) =>
                \/ result[i].end <= result[j].start
                \/ result[j].end <= result[i].start

\* C3: with a close boundary of 00:00, a booking that ends at 00:00 consumes
\* the time up to the next day's 00:00: no returned window of that room
\* contains an instant between the booking's start and that boundary.
C3_MidnightBookingConsumed ==
    pc = "done" =>
        \A room \in ConsideredRooms :
            \A b \in RoomBookings(room) :
                (room.close = 0 /\ b.end = 0) =>
                    \A w \in Returned :
                        w.room = room.id =>
                            ~(/\ w.start < (req.date + 1) * SlotsPerDay
                              /\ w.end > BookedFrom(b))

\* C4: every maximal interval of [effective_open, effective_close) that no
\* booking of the room covers and that is long enough is returned as exactly
\* that interval.
MaximalFree(room, s, e) ==
    /\ s < e
    /\ \A t \in s..(e - 1) : ~Covered(room, t)
    /\ s = EffectiveOpen(room) \/ Covered(room, s - 1)
    /\ e = EffectiveClose(room) \/ Covered(room, e)
C4_SweepComplete ==
    pc = "done" =>
        \A room \in ConsideredRooms :
            \A s, e \in EffectiveOpen(room)..EffectiveClose(room) :
                (MaximalFree(room, s, e) /\ e - s >= req.min_availability_duration)
                    => [room |-> room.id, date |-> req.date,
                        start |-> s, end |-> e] \in Returned

\* C5: every returned window starts strictly before it ends and lasts at
\* least min_availability_duration.
C5_WindowsLongEnough ==
    pc = "done" =>
        \A w \in Returned :
            /\ w.start < w.end
            /\ w.end - w.start >= req.min_availability_duration
\* a call that returned a window and discarded a shorter candidate
C5_Witness ==
    /\ pc = "done"
    /\ result # <<>>
    /\ req.min_availability_duration > 0
    /\ Len(AllRoomWindows(req.rooms, req.bookings, req.date, req.from_time,
                          req.to_time, req.min_room_size)) > Len(result)

\* the lists that hold the same bookings as the request's, in every order
Reorderings(s) ==
    {[k \in 1..Len(s) |-> s[f[k]]] :
        f \in {g \in [1..Len(s) -> 1..Len(s)] :
                   \A i, j \in 1..Len(s) : g[i] = g[j] => i = j}}
Windows(list) == {list[i] : i \in 1..Len(list)}

C19_SortedByStart ==
    pc = "done" =>
        \A i \in 1..(Len(result) - 1) : result[i].start <= result[i + 1].start
\* a window of the second room comes before a later window of the first room,
\* and a window reaches the next day's 00:00
C19_Witness ==
    /\ pc = "done"
    /\ \E i, j \in 1..Len(result) :
           /\ i < j /\ result[i].room = 2 /\ result[j].room = 1
           /\ result[i].start < result[j].start
    /\ \E w \in Returned : w.end = Combine(req.date + 1, Midnight)

\* C20: no window is returned for a room smaller than min_room_size; a room
\* of at least that size, and of exactly that size, is swept, also when it
\* has no booking on the date: its free time from the open boundary to the
\* close boundary is returned when long enough.
C20_RoomSizeFilter ==
    pc = "done" =>
        /\ \A w \in Returned : TheRoom(w.room).size >= req.min_room_size
        /\ \A room \in Windows(req.rooms) :
               (/\ room.size >= req.min_room_size
                /\ RoomBookings(room) = {}
                /\ EffectiveOpen(room) < EffectiveClose(room)
                /\ EffectiveClose(room) - EffectiveOpen(room)
                       >= req.min_availability_duration)
                   => [room |-> room.id, date |-> req.date,
                       start |-> EffectiveOpen(room),
                       end |-> EffectiveClose(room)] \in Returned
\* one room is too small and has no window; the other has exactly the size
\* asked for and no booking, and its window is returned
C20_Witness ==
    /\ pc = "done"
    /\ \E small, exact \in Windows(req.rooms) :
           /\ small.size < req.min_room_size
           /\ exact.size = req.min_room_size
           /\ RoomBookings(exact) = {}
           /\ \E w \in Returned : w.room = exact.id
           /\ RoomBookings(small) # {}

\* a closing time read as the end of the day when it is 00:00
EndOfDayAware(date, time) ==
    IF time = 0 THEN (date + 1) * SlotsPerDay ELSE date * SlotsPerDay + time

\* C21: reading 00:00 as the end of the day, every returned window ends no
\* later than the room's closing time and no later than to_time, and starts
\* no earlier than the room's opening time and from_time; stated here for the
\* calls where exactly one of room.close and to_time is 00:00.
C21_WindowsInsideBothLimits ==
    pc = "done" =>
        \A w \in Returned :
            LET room == TheRoom(w.room)
            IN  ((room.close = 0) # (req.to_time = 0)) =>
                    /\ w.end <= EndOfDayAware(req.date, room.close)
                    /\ w.end <= EndOfDayAware(req.date, req.to_time)
                    /\ w.start >= req.date * SlotsPerDay + room.open
                    /\ w.start >= req.date * SlotsPerDay + req.from_time

====
